---- MODULE Spec2Model ----
(***************************************************************************)
(* A model of main.py, the physics-events RSS scraper: feed aggregation,   *)
(* URL deduplication, the date window, detail-page enrichment, the two     *)
(* renderers (HTML document, Google Calendar CSV) and sanitize_filename.   *)
(*                                                                         *)
(* Python values are modelled as follows.                                  *)
(*   str            a sequence of tokens (each token a TLA+ string);       *)
(*                  '' is the empty sequence                               *)
(*   None | value   None is << >>, a value x is << x >> (Some(x))          *)
(*   datetime       [local |-> hours on the wall clock,                    *)
(*                   off |-> None (naive) | Some(utc offset in hours)]     *)
(*   a dict in a    its index in all_events: events_in_range and the       *)
(*   second list    renderers' filtered_events hold references             *)
(*                                                                         *)
(* Of the event dict the model keeps link, guid, description, startdate,   *)
(* location and the three enrichment fields; title, category, pubDate,     *)
(* enddate, organizer and event_type, the texts printed and the files      *)
(* written are left out. Regular expressions act on tokens: the model of   *)
(* extract_location_from_description and of sanitize_filename returns what *)
(* the Python functions return on every input of the bounded sets.         *)
(*                                                                         *)
(* Spec          a run of main                                             *)
(* SpecFilter    a renderer called on any list of records and any window   *)
(* SpecLocation  a renderer called on one record, any location sources     *)
(* SpecSanitize  sanitize_filename called on any name and max_length       *)
(***************************************************************************)
EXTENDS Integers, Sequences, FiniteSets, TLC

\* ------------------------------------------------------------- bounds
MaxFeeds == 3        \* feeds iterated by main (feed_ids holds 16)
MaxEvents == 3       \* records given to a renderer called on its own
MaxNameLen == 4      \* characters of a name given to sanitize_filename
MaxDescLen == 3      \* tokens of a description given to a renderer

\* ------------------------------------------------------------- values
None == << >>
Some(x) == << x >>
EmptyStr == << >>

\* Python truthiness of None | str: None and '' are falsy.
Truthy(v) == v # None /\ v[1] # EmptyStr

\* a or b, for None | str operands
Or(a, b) == IF Truthy(a) THEN a ELSE b

SeqsUpTo(S, n) == UNION {[1..k -> S] : k \in 0..n}

Last(s) == s[Len(s)]
Front(s) == SubSeq(s, 1, Len(s) - 1)

Range(s) == {s[k] : k \in 1..Len(s)}

\* ------------------------------------------------------------- dates
\* Wall-clock date-times that occur in feeds, in hours since 2025-03-01T00.
LocalBodies ==
    {"2025-03-03T23:00:00", "2025-03-04T00:00:00", "2025-03-04T01:00:00",
     "2025-03-04T12:00:00", "2025-03-04T23:00:00", "2025-03-05T00:00:00",
     "2025-03-05T01:00:00"}

HourOf(b) ==
    CASE b = "2025-03-03T23:00:00" -> 71
      [] b = "2025-03-04T00:00:00" -> 72
      [] b = "2025-03-04T01:00:00" -> 73
      [] b = "2025-03-04T12:00:00" -> 84
      [] b = "2025-03-04T23:00:00" -> 95
      [] b = "2025-03-05T00:00:00" -> 96
      [] b = "2025-03-05T01:00:00" -> 97

OffsetTokens == {"+00:00", "+01:00", "-01:00"}

OffsetOf(tz) ==
    CASE tz = "+00:00" -> 0
      [] tz = "+01:00" -> 1
      [] tz = "-01:00" -> 0 - 1

\* datetime.fromisoformat: None stands for the ValueError it raises.
\* A trailing 'Z' is not an offset it accepts (the caller rewrites it).
fromisoformat(s) ==
    IF Len(s) = 1 /\ s[1] \in LocalBodies
    THEN Some([local |-> HourOf(s[1]), off |-> None])
    ELSE IF Len(s) = 2 /\ s[1] \in LocalBodies /\ s[2] \in OffsetTokens
    THEN Some([local |-> HourOf(s[1]), off |-> Some(OffsetOf(s[2]))])
    ELSE None

\* parse_iso_datetime, for a str argument: the datetime, or None.
parse_iso_str(iso_string) ==
    LET s == IF Len(iso_string) > 0 /\ Last(iso_string) = "Z"
             THEN Front(iso_string) \o << "+00:00" >>
             ELSE iso_string
    IN  fromisoformat(s)

\* parse_iso_datetime: [raised, value]. None has no endswith.
parse_iso_datetime(v) ==
    IF v = None
    THEN [raised |-> "AttributeError", value |-> None]
    ELSE [raised |-> "", value |-> parse_iso_str(v[1])]

IsAware(d) == d.off # None
\* The instant an aware datetime denotes (hours, UTC).
Instant(d) == d.local - d.off[1]

\* parse_date_input: m/d/yy at midnight UTC; None stands for sys.exit(1).
DateInputs == {"3/4/25", "3/5/25", "2025-03-04"}

parse_date_input(date_str) ==
    CASE date_str = "3/4/25" -> Some([local |-> 72, off |-> Some(0)])
      [] date_str = "3/5/25" -> Some([local |-> 96, off |-> Some(0)])
      [] OTHER -> None

\* A window that leaves out its end.
WithinWindow_EndExclusive(start_date, event_date, end_date) ==
    /\ Instant(start_date) <= Instant(event_date)
    /\ Instant(event_date) < Instant(end_date)

\* start_date <= event_date <= end_date, all three aware.
WithinWindow(start_date, event_date, end_date) ==
    /\ Instant(start_date) <= Instant(event_date)
    /\ Instant(event_date) <= Instant(end_date)

\* event_date and start_date <= event_date <= end_date for one record: what
\* evaluating the condition of the filter loops does. The window bounds are
\* aware.
\*   raised = "AttributeError"  event['startdate'] is None
\*   raised = "TypeError"       the parsed datetime is naive
InWindow(event, start_date, end_date) ==
    LET p == parse_iso_datetime(event.startdate)
    IN  IF p.raised # "" THEN [raised |-> p.raised, keep |-> FALSE]
        ELSE IF p.value = None THEN [raised |-> "", keep |-> FALSE]
        ELSE IF ~IsAware(p.value[1]) THEN [raised |-> "TypeError", keep |-> FALSE]
        ELSE [raised |-> "",
              keep |-> WithinWindow(start_date, p.value[1], end_date)]

\* The exception the filter loop over events raises, "" if none: the loop
\* stops at the first record whose condition raises.
RECURSIVE FilterError(_, _, _, _)
FilterError(events, k, start_date, end_date) ==
    IF k > Len(events) THEN ""
    ELSE LET r == InWindow(events[k], start_date, end_date)
         IN  IF r.raised # "" THEN r.raised
             ELSE FilterError(events, k + 1, start_date, end_date)

\* ------------------------------------------------------------- text
\* clean_html_description. Descriptions are built from tokens; a markup
\* tag is one token, which the tag pattern removes whole, and strip()
\* removes the newlines at both ends.
TagTokens == {"<p>"}
Whitespace == {"\n", " ", "\t"}

RECURSIVE RemoveTokens(_, _)
RemoveTokens(s, T) ==
    IF s = << >> THEN << >>
    ELSE (IF s[1] \in T THEN << >> ELSE << s[1] >>) \o RemoveTokens(Tail(s), T)

RECURSIVE LStrip(_, _)
LStrip(s, T) == IF s # << >> /\ s[1] \in T THEN LStrip(Tail(s), T) ELSE s

RECURSIVE RStrip(_, _)
RStrip(s, T) == IF s # << >> /\ Last(s) \in T THEN RStrip(Front(s), T) ELSE s

Strip(s) == RStrip(LStrip(s, Whitespace), Whitespace)

clean_html_description(description) == Strip(RemoveTokens(description, TagTokens))

\* The tokens of s before the first token in T (all of s if there is none).
RECURSIVE TakeUntil(_, _)
TakeUntil(s, T) ==
    IF s = << >> \/ s[1] \in T THEN << >>
    ELSE << s[1] >> \o TakeUntil(Tail(s), T)

\* The labels In-[Pp]erson: matches.
InPersonLabels == {"In-person:", "In-Person:"}

\* re.search(r'In-[Pp]erson:\s*(.+?)(?:$|\n|Zoom)', cleaned, re.MULTILINE):
\* group(1) of the leftmost match, or None. After the label \s* takes the
\* newlines; (.+?) needs one character that is no newline, so it takes the
\* next token whole and then stops before the first newline, "Zoom" or end.
RECURSIVE SearchInPerson(_)
SearchInPerson(cleaned) ==
    IF cleaned = << >> THEN None
    ELSE IF cleaned[1] \in InPersonLabels
            /\ LStrip(Tail(cleaned), Whitespace) # << >>
         THEN LET rest == LStrip(Tail(cleaned), Whitespace)
              IN  Some(<< rest[1] >> \o TakeUntil(Tail(rest), {"\n", "Zoom"}))
         ELSE SearchInPerson(Tail(cleaned))

\* extract_location_from_description, for a str argument: None | str.
extract_location_str(description) ==
    LET cleaned == clean_html_description(description)
        match == SearchInPerson(cleaned)
    IN  IF match = None THEN None
        ELSE LET stripped == Strip(match[1])
                 \* re.sub(r',\s*$', '', location).strip()
                 nocomma == IF stripped # << >> /\ Last(stripped) = ","
                            THEN Strip(Front(stripped)) ELSE stripped
                 \* location.split(',')[0].strip()
                 location == IF "," \in Range(nocomma)
                             THEN Strip(TakeUntil(nocomma, {","}))
                             ELSE nocomma
             IN  IF location # EmptyStr THEN Some(location) ELSE None

\* extract_location_from_description: [raised, value]; re.sub of None raises.
extract_location_from_description(description) ==
    IF description = None
    THEN [raised |-> "TypeError", value |-> None]
    ELSE [raised |-> "", value |-> extract_location_str(description[1])]

\* A chain that takes the feed's location before the description's.
ResolveLocation_FeedFirst(event) ==
    IF Truthy(event.detail_location)
    THEN [raised |-> "", value |-> event.detail_location]
    ELSE LET x == extract_location_from_description(event.description)
         IN  IF x.raised # "" THEN x
             ELSE [raised |-> "", value |-> Or(event.location, x.value)]

\* event['detail_location'] or extract_location_from_description(...) or
\* event['location']: [raised, value]. The extractor runs only when the
\* detail location is falsy.
ResolveLocation(event) ==
    IF Truthy(event.detail_location)
    THEN [raised |-> "", value |-> event.detail_location]
    ELSE LET x == extract_location_from_description(event.description)
         IN  IF x.raised # "" THEN x
             ELSE [raised |-> "", value |-> Or(x.value, event.location)]

\* ------------------------------------------------------------- renderers
\* A loop that never skips a record.
IsDuplicateGuid_Never(guid, seen_guids) == FALSE

\* if guid and guid in seen_guids: continue
IsDuplicateGuid(guid, seen_guids) == guid # EmptyStr /\ guid \in seen_guids

\* The filter-and-dedupe loop of both renderers, from record k on: the
\* references (positions in events) appended to filtered_events.
RECURSIVE FilterDedupe(_, _, _, _, _)
FilterDedupe(events, k, seen_guids, start_date, end_date) ==
    IF k > Len(events) THEN << >>
    ELSE LET guid == events[k].guid
         IN  IF ~InWindow(events[k], start_date, end_date).keep
             THEN FilterDedupe(events, k + 1, seen_guids, start_date, end_date)
             ELSE IF IsDuplicateGuid(guid, seen_guids)
             THEN FilterDedupe(events, k + 1, seen_guids, start_date, end_date)
             ELSE << k >> \o
                  FilterDedupe(events, k + 1,
                               IF guid # EmptyStr THEN seen_guids \cup {guid}
                               ELSE seen_guids,
                               start_date, end_date)

\* The sort key of a filtered record: its aware start datetime (datetime.min
\* is never taken, a filtered record has a start datetime).
SortKey(event) == Instant(parse_iso_datetime(event.startdate).value[1])

\* A sort that also moves a record in front of one with an equal key.
KeyBefore_OrEqual(a, b) == a <= b

\* list.sort moves a record in front of another only when its key is smaller.
KeyBefore(a, b) == a < b

RECURSIVE InsertByKey(_, _, _)
InsertByKey(sorted, x, events) ==
    IF sorted # << >> /\ KeyBefore(SortKey(events[x]), SortKey(events[Last(sorted)]))
    THEN InsertByKey(Front(sorted), x, events) \o << Last(sorted) >>
    ELSE sorted \o << x >>

\* filtered_events.sort(key=...): a stable sort of the references.
RECURSIVE SortByStart(_, _)
SortByStart(refs, events) ==
    IF refs = << >> THEN << >>
    ELSE InsertByKey(SortByStart(Front(refs), events), Last(refs), events)

\* filtered_events of generate_html_output after the sort.
FilteredSorted(events, start_date, end_date) ==
    SortByStart(FilterDedupe(events, 1, {}, start_date, end_date), events)

\* A calendar renderer that leaves filtered_events in input order.
CsvFilteredSorted_Unsorted(events, start_date, end_date) ==
    FilterDedupe(events, 1, {}, start_date, end_date)

\* filtered_events of generate_google_calendar_csv after the sort: its own
\* copy of the loop and of the sort.
CsvFilteredSorted(events, start_date, end_date) ==
    SortByStart(FilterDedupe(events, 1, {}, start_date, end_date), events)

\* event_date.strftime('%Y-%m-%d'): the day on the record's own wall clock.
DateKey(event) == parse_iso_datetime(event.startdate).value[1].local \div 24

RECURSIVE RefsOfDay(_, _, _)
RefsOfDay(refs, events, day) ==
    IF refs = << >> THEN << >>
    ELSE (IF DateKey(events[refs[1]]) = day THEN << refs[1] >> ELSE << >>)
         \o RefsOfDay(Tail(refs), events, day)

RECURSIVE ByDays(_, _, _)
ByDays(days, refs, events) ==
    IF days = {} THEN << >>
    ELSE LET day == CHOOSE d \in days : \A o \in days : d <= o
         IN  SortByStart(RefsOfDay(refs, events, day), events)
             \o ByDays(days \ {day}, refs, events)

\* The order in which generate_html_output emits the records: grouped by
\* date key, the keys ascending, each day sorted by start.
HtmlOrder(refs, events) ==
    ByDays({DateKey(events[refs[k]]) : k \in 1..Len(refs)}, refs, events)

\* One entry of the document: the lines emitted for a record. A line that
\* is not emitted is None.
HtmlEntry(ref, event) ==
    LET location == ResolveLocation(event).value
    IN  [event |-> ref,
         link |-> event.link,
         speaker |-> IF Truthy(event.speaker) THEN event.speaker ELSE None,
         location |-> IF Truthy(location) THEN location ELSE None,
         youtube_link |-> IF Truthy(event.youtube_link)
                          THEN event.youtube_link ELSE None]

\* One row of the CSV.
CsvRow(ref, event) ==
    LET location == ResolveLocation(event).value
    IN  [event |-> ref,
         Location |-> Or(location, Some(EmptyStr))[1],
         Speaker |-> Or(event.speaker, Some(EmptyStr))[1],
         YouTube |-> IF Truthy(event.youtube_link)
                     THEN event.youtube_link ELSE None]

\* Rendering a record cleans its description: None raises TypeError.
RenderRaises(event) == event.description = None

\* The longest prefix of refs whose records render without raising.
RECURSIVE RenderablePrefix(_, _)
RenderablePrefix(refs, events) ==
    IF refs = << >> \/ RenderRaises(events[refs[1]]) THEN << >>
    ELSE << refs[1] >> \o RenderablePrefix(Tail(refs), events)

\* ------------------------------------------------------------- feeds
\* An element of a feed item: None when the item has no such element, else
\* Some(text) with text the element's .text: None for an empty element.
Absent == None
EmptyElement == Some(None)
WithText(t) == Some(Some(t))

\* x.text if x is not None else ''
ElementText(x) == IF x = Absent THEN Some(EmptyStr) ELSE x[1]

\* guid_text.split('@')[0] if '@' in guid_text else ''
GuidNumber(guid_text) ==
    IF "@" \in Range(guid_text) THEN TakeUntil(guid_text, {"@"}) ELSE EmptyStr

\* The event URL generated from the guid number, '' without one.
EventUrl(guid_number) ==
    IF guid_number # EmptyStr
    THEN << "https://lsa.umich.edu/physics/news-events/all-events.detail.html/" >>
         \o guid_number \o << ".html" >>
    ELSE EmptyStr

\* The dict parse_rss_feed builds for one item (the guid text is a str).
ParseItem(item) ==
    LET guid_number == GuidNumber(ElementText(item.guid)[1])
    IN  [link |-> EventUrl(guid_number),
         guid |-> guid_number,
         description |-> ElementText(item.description),
         startdate |-> ElementText(item.startdate),
         location |-> ElementText(item.location),
         speaker |-> None,
         detail_location |-> None,
         youtube_link |-> None]

\* What a feed URL answers: unreachable (or not 2xx), or a text with items
\* in it that is well-formed XML or not.
FeedResponse(reachable, wellformed, items) ==
    [reachable |-> reachable, wellformed |-> wellformed, items |-> items]

\* A parser that returns the items it read before the syntax error.
FetchAndParse_Lenient(response) ==
    IF ~response.reachable
    THEN [exit |-> TRUE, raised |-> "", events |-> << >>]
    ELSE IF \E k \in 1..Len(response.items) : response.items[k].guid = EmptyElement
    THEN [exit |-> FALSE, raised |-> "TypeError", events |-> << >>]
    ELSE [exit |-> FALSE, raised |-> "",
          events |-> [k \in 1..Len(response.items) |-> ParseItem(response.items[k])]]

\* fetch_rss_feed then parse_rss_feed, as called by main:
\*   exit    sys.exit(1) was called (RequestException, ET.ParseError)
\*   raised  an exception that is no SystemExit: '@' in None is a TypeError
\*   events  the list returned
FetchAndParse(response) ==
    IF ~response.reachable \/ ~response.wellformed
    THEN [exit |-> TRUE, raised |-> "", events |-> << >>]
    ELSE IF \E k \in 1..Len(response.items) : response.items[k].guid = EmptyElement
    THEN [exit |-> FALSE, raised |-> "TypeError", events |-> << >>]
    ELSE [exit |-> FALSE, raised |-> "",
          events |-> [k \in 1..Len(response.items) |-> ParseItem(response.items[k])]]

\* A pass that never skips a record.
IsDuplicateLink_Never(link, seen_links) == FALSE

\* if link: if link in seen_links: continue
IsDuplicateLink(link, seen_links) == link # EmptyStr /\ link \in seen_links

\* The deduplication loop of main, from record k on: deduped_events.
RECURSIVE DedupeByLink(_, _, _)
DedupeByLink(events, k, seen_links) ==
    IF k > Len(events) THEN << >>
    ELSE LET link == events[k].link
         IN  IF IsDuplicateLink(link, seen_links)
             THEN DedupeByLink(events, k + 1, seen_links)
             ELSE << events[k] >> \o
                  DedupeByLink(events, k + 1,
                               IF link # EmptyStr THEN seen_links \cup {link}
                               ELSE seen_links)

\* A loop that takes every record, whatever its start.
InRange_All(events, k, start_date, end_date) ==
    [j \in 1..(Len(events) - k + 1) |-> j + k - 1]

\* The loop that builds events_in_range, from record k on (references).
RECURSIVE InRange(_, _, _, _)
InRange(events, k, start_date, end_date) ==
    IF k > Len(events) THEN << >>
    ELSE (IF InWindow(events[k], start_date, end_date).keep
          THEN << k >> ELSE << >>)
         \o InRange(events, k + 1, start_date, end_date)

\* What fetching a detail page meets: ok is FALSE when an exception is
\* raised inside fetch_event_detail_page; the other fields are the elements
\* found in the page (before the exception, if any).
DetailResponse(ok, subtitle, place, youtube) ==
    [ok |-> ok, subtitle |-> subtitle, place |-> place, youtube |-> youtube]

\* A fetch that returns what it had found when the exception was raised.
fetch_event_detail_page_Partial(response) ==
    << response.subtitle, response.place, response.youtube >>

\* fetch_event_detail_page: (speaker, location, youtube_link).
fetch_event_detail_page(response) ==
    IF ~response.ok THEN << None, None, None >>
    ELSE << response.subtitle, response.place, response.youtube >>

\* ------------------------------------------------------------- filenames
\* sanitize_filename over names made of one-character tokens.
InvalidChars == {"<", ">", ":", "\"", "/", "\\", "|", "?", "*"}

\* re.sub(r'[<>:\\"/\\|?*]', '-', name)
ReplaceInvalid(name) ==
    [k \in 1..Len(name) |-> IF name[k] \in InvalidChars THEN "-" ELSE name[k]]

\* re.sub(r'[\s\-]+', ' ', safe): each run of whitespace and hyphens
\* becomes one space.
RECURSIVE CollapseRuns(_)
CollapseRuns(s) ==
    IF s = << >> THEN << >>
    ELSE IF s[1] \in Whitespace \cup {"-"}
    THEN << " " >> \o CollapseRuns(LStrip(s, Whitespace \cup {"-"}))
    ELSE << s[1] >> \o CollapseRuns(Tail(s))

\* safe[:max_length]
Truncate(safe, max_length) ==
    IF Len(safe) > max_length THEN SubSeq(safe, 1, max_length) ELSE safe

sanitize_filename(name, max_length) ==
    LET replaced == ReplaceInvalid(name)
        collapsed == Strip(CollapseRuns(replaced))
        trimmed == RStrip(collapsed, {" ", "."})
    IN  Truncate(trimmed, max_length)

\* ------------------------------------------------------------- state
VARIABLES
    pc,               \* where the run is
    error,            \* << >> or what ended the run: << exception, where >>
    feed_log,         \* the answer of each feed fetched so far, in feed order
    all_events,       \* the aggregated records
    deduped,          \* TRUE once the URL deduplication pass has run
    start_date,       \* None | the window start read from the user
    end_date,         \* None | the window end
    events_in_range,  \* references into all_events
    i,                \* position in events_in_range of the enrichment loop
    detail_log,       \* the detail-page fetches made: record, link, answer
    html_filtered,    \* None | filtered_events of generate_html_output
    html_output,      \* None | the entries of the document returned
    csv_filtered,     \* None | filtered_events of generate_google_calendar_csv
    csv_rows,         \* the rows written to the CSV file
    name,             \* argument of sanitize_filename
    max_length,       \* argument of sanitize_filename
    safe              \* None | the value sanitize_filename returned

vars == << pc, error, feed_log, all_events, deduped, start_date, end_date,
           events_in_range, i, detail_log, html_filtered, html_output,
           csv_filtered, csv_rows, name, max_length, safe >>

filename_vars == << name, max_length, safe >>
render_vars == << html_filtered, html_output, csv_filtered, csv_rows >>

\* ------------------------------------------------------------- inputs
Str(tok) == << tok >>

\* The items feeds hold in a run of main.
Guid(n) == WithText(<< n, "@", "events.umich.edu" >>)

\* guid 1, starts 2025-03-04T00:00Z: the window start of 3/4/25
Item1 ==
    [guid |-> Guid("1"),
     startdate |-> WithText(<< "2025-03-04T00:00:00", "Z" >>),
     description |-> WithText(<< "In-person:", "West Hall", ",", "Room 340" >>),
     location |-> WithText(Str("Virtual"))]
\* guid 1 republished with another start: the window end of 3/5/25
Item1Later ==
    [guid |-> Guid("1"),
     startdate |-> WithText(<< "2025-03-05T01:00:00", "+01:00" >>),
     description |-> WithText(Str("Colloquium")),
     location |-> WithText(Str("Virtual"))]
\* guid 2, starts 2025-03-05T00:00Z, on the wall clock the day before
Item2 ==
    [guid |-> Guid("2"),
     startdate |-> WithText(<< "2025-03-04T23:00:00", "-01:00" >>),
     description |-> WithText(Str("Colloquium")),
     location |-> Absent]
\* no guid element, hence no link; starts 2025-03-04T23:00Z, on the wall
\* clock the day after
ItemNoGuid ==
    [guid |-> Absent,
     startdate |-> WithText(<< "2025-03-05T00:00:00", "+01:00" >>),
     description |-> Absent,
     location |-> Absent]
\* a guid without '@' and a start that is no date
ItemBadDate ==
    [guid |-> WithText(Str("4")),
     startdate |-> WithText(Str("tomorrow")),
     description |-> Absent,
     location |-> WithText(Str("Virtual"))]
\* guid 5, one hour after the end of 3/5/25
ItemLate ==
    [guid |-> Guid("5"),
     startdate |-> WithText(<< "2025-03-05T01:00:00", "Z" >>),
     description |-> WithText(Str("Colloquium")),
     location |-> Absent]
\* guid 6, a start without offset
ItemNaive ==
    [guid |-> Guid("6"),
     startdate |-> WithText(Str("2025-03-04T12:00:00")),
     description |-> WithText(Str("Colloquium")),
     location |-> Absent]
\* guid 7, an empty start element
ItemEmptyStart ==
    [guid |-> Guid("7"),
     startdate |-> EmptyElement,
     description |-> WithText(Str("Colloquium")),
     location |-> Absent]
\* an empty guid element
ItemEmptyGuid ==
    [guid |-> EmptyElement,
     startdate |-> Absent,
     description |-> Absent,
     location |-> Absent]

FeedDocuments ==
    { << >>,
      << Item1, ItemNoGuid >>,
      << Item2, Item1Later >>,
      << Item1Later, Item1 >>,
      << ItemNoGuid, ItemNoGuid >>,
      << ItemBadDate, ItemLate >>,
      << ItemNaive >>,
      << ItemEmptyStart >>,
      << ItemEmptyGuid >> }

\* An unreachable feed, a text that is not well-formed, or a document.
FeedResponses ==
    { FeedResponse(FALSE, FALSE, << >>),
      FeedResponse(TRUE, FALSE, << Item1, ItemNoGuid >>) }
    \cup { FeedResponse(TRUE, TRUE, items) : items \in FeedDocuments }

\* A failure after the subtitle was read, a page with all three elements,
\* a page whose only element is an empty place.
DetailResponses ==
    { DetailResponse(FALSE, Some(Str("Dr. A")), None, None),
      DetailResponse(TRUE, Some(Str("Dr. A")), Some(Str("340 West Hall")),
                     Some(Str("https://youtu.be/x"))),
      DetailResponse(TRUE, None, Some(EmptyStr), None) }

\* ------------------------------------------------------------- main
NoRender ==
    /\ html_filtered = None /\ html_output = None
    /\ csv_filtered = None /\ csv_rows = << >>

NoFilename == name = << >> /\ max_length = 0 /\ safe = None

Init ==
    /\ pc = "feeds"
    /\ error = << >>
    /\ feed_log = << >>
    /\ all_events = << >>
    /\ deduped = FALSE
    /\ start_date = None
    /\ end_date = None
    /\ events_in_range = << >>
    /\ i = 1
    /\ detail_log = << >>
    /\ NoRender
    /\ NoFilename

\* main, one pass of the loop over feed_ids.
FetchFeed ==
    /\ pc = "feeds"
    /\ Len(feed_log) < MaxFeeds
    /\ \E response \in FeedResponses :
         LET r == FetchAndParse(response)
         IN  /\ feed_log' = Append(feed_log, response)
             /\ IF r.raised # ""
                THEN /\ pc' = "crashed"
                     /\ error' = << r.raised, "parse_rss_feed" >>
                     /\ UNCHANGED all_events
                ELSE /\ all_events' = IF r.exit THEN all_events
                                      ELSE all_events \o r.events
                     /\ UNCHANGED << pc, error >>
    /\ UNCHANGED << deduped, start_date, end_date, events_in_range, i,
                    detail_log, render_vars, filename_vars >>

\* main, the deduplication by URL after the last feed.
DedupeByUrl ==
    /\ pc = "feeds"
    /\ Len(feed_log) = MaxFeeds
    /\ all_events' = DedupeByLink(all_events, 1, {})
    /\ deduped' = TRUE
    /\ pc' = "dates"
    /\ UNCHANGED << error, feed_log, start_date, end_date, events_in_range, i,
                    detail_log, render_vars, filename_vars >>

\* A run that lacks the check of the window.
WindowInvalid_Never(sd, ed) == FALSE

\* if start_date > end_date
WindowInvalid(sd, ed) == Instant(sd) > Instant(ed)

\* main, reading the two dates and checking the window.
ReadDateWindow ==
    /\ pc = "dates"
    /\ \E s \in DateInputs, e \in DateInputs :
         LET sd == parse_date_input(s)
             ed == parse_date_input(e)
         IN  IF sd = None
             THEN /\ pc' = "exit" /\ error' = << "SystemExit", "parse_date_input" >>
                  /\ UNCHANGED << start_date, end_date >>
             ELSE IF ed = None
             THEN /\ pc' = "exit" /\ error' = << "SystemExit", "parse_date_input" >>
                  /\ start_date' = sd
                  /\ UNCHANGED end_date
             ELSE /\ start_date' = sd
                  /\ end_date' = ed
                  /\ IF WindowInvalid(sd[1], ed[1])
                     THEN pc' = "exit" /\ error' = << "SystemExit", "InvalidDateWindow" >>
                     ELSE pc' = "filter" /\ UNCHANGED error
    /\ UNCHANGED << feed_log, all_events, deduped, events_in_range, i,
                    detail_log, render_vars, filename_vars >>

\* main, the loop that collects events_in_range.
FilterInRange ==
    /\ pc = "filter"
    /\ LET raised == FilterError(all_events, 1, start_date[1], end_date[1])
       IN  IF raised # ""
           THEN /\ pc' = "crashed" /\ error' = << raised, "main" >>
                /\ UNCHANGED events_in_range
           ELSE /\ events_in_range' = InRange(all_events, 1, start_date[1], end_date[1])
                /\ pc' = IF events_in_range' = << >> THEN "html" ELSE "enrich"
                /\ UNCHANGED error
    /\ UNCHANGED << feed_log, all_events, deduped, start_date, end_date, i,
                    detail_log, render_vars, filename_vars >>

\* The record after the three assignments of the enrichment loop.
Enriched(event, detail) ==
    [event EXCEPT !.speaker = detail[1],
                  !.detail_location = detail[2],
                  !.youtube_link = detail[3]]

\* main, one pass of the enrichment loop.
EnrichNext ==
    /\ pc = "enrich"
    /\ LET ref == events_in_range[i]
           event == all_events[ref]
       IN  IF event.link # EmptyStr
           THEN \E response \in DetailResponses :
                  /\ detail_log' = Append(detail_log,
                         [event |-> ref, link |-> event.link, response |-> response])
                  /\ all_events' = [all_events EXCEPT ![ref] =
                         Enriched(event, fetch_event_detail_page(response))]
           ELSE UNCHANGED << detail_log, all_events >>
    /\ i' = i + 1
    /\ pc' = IF i = Len(events_in_range) THEN "html" ELSE "enrich"
    /\ UNCHANGED << error, feed_log, deduped, start_date, end_date,
                    events_in_range, render_vars, filename_vars >>

\* generate_html_output(all_events, start_date, end_date, output_dir).
GenerateHtml ==
    /\ pc = "html"
    /\ LET raised == FilterError(all_events, 1, start_date[1], end_date[1])
           refs == FilteredSorted(all_events, start_date[1], end_date[1])
           order == HtmlOrder(refs, all_events)
       IN  IF raised # ""
           THEN /\ pc' = "crashed"
                /\ error' = << raised, "generate_html_output" >>
                /\ UNCHANGED << html_filtered, html_output >>
           ELSE /\ html_filtered' = Some(refs)
                /\ IF \E k \in 1..Len(order) : RenderRaises(all_events[order[k]])
                   THEN /\ pc' = "crashed"
                        /\ error' = << "TypeError", "clean_html_description" >>
                        /\ UNCHANGED html_output
                   ELSE /\ pc' = "csv"
                        /\ html_output' = Some([k \in 1..Len(order) |->
                               HtmlEntry(order[k], all_events[order[k]])])
                        /\ UNCHANGED error
    /\ UNCHANGED << feed_log, all_events, deduped, start_date, end_date,
                    events_in_range, i, detail_log, csv_filtered, csv_rows,
                    filename_vars >>

\* generate_google_calendar_csv(all_events, start_date, end_date, csv_path).
GenerateCsv ==
    /\ pc = "csv"
    /\ LET raised == FilterError(all_events, 1, start_date[1], end_date[1])
           refs == CsvFilteredSorted(all_events, start_date[1], end_date[1])
           written == RenderablePrefix(refs, all_events)
       IN  IF raised # ""
           THEN /\ pc' = "crashed"
                /\ error' = << raised, "generate_google_calendar_csv" >>
                /\ UNCHANGED << csv_filtered, csv_rows >>
           ELSE /\ csv_filtered' = Some(refs)
                /\ csv_rows' = [k \in 1..Len(written) |->
                                   CsvRow(written[k], all_events[written[k]])]
                /\ IF written # refs
                   THEN /\ pc' = "crashed"
                        /\ error' = << "TypeError", "clean_html_description" >>
                   ELSE pc' = "done" /\ UNCHANGED error
    /\ UNCHANGED << feed_log, all_events, deduped, start_date, end_date,
                    events_in_range, i, detail_log, html_filtered, html_output,
                    filename_vars >>

Next ==
    \/ FetchFeed
    \/ DedupeByUrl
    \/ ReadDateWindow
    \/ FilterInRange
    \/ EnrichNext
    \/ GenerateHtml
    \/ GenerateCsv

Spec == Init /\ [][Next]_vars

\* ------------------------------------------------------------- renderers alone
\* A renderer is also a function of any list of records and any window.
\* FilterEvents vary identity and start; LocationEvents vary the three
\* sources of the location.
Event(guid, startdate, description, location, detail_location) ==
    [link |-> EventUrl(guid),
     guid |-> guid,
     description |-> description,
     startdate |-> startdate,
     location |-> location,
     speaker |-> None,
     detail_location |-> detail_location,
     youtube_link |-> None]

FilterGuids == { EmptyStr, Str("1"), Str("2") }

FilterStarts ==
    { Some(<< "2025-03-04T00:00:00", "Z" >>),        \* instant 72, day 03-04
      Some(<< "2025-03-05T00:00:00", "+01:00" >>),   \* instant 95, day 03-05
      Some(<< "2025-03-04T23:00:00", "-01:00" >>),   \* instant 96, day 03-04
      Some(Str("tomorrow")),                         \* no date
      Some(Str("2025-03-04T12:00:00")) }             \* no offset

FilterEvents ==
    { Event(g, sd, Some(EmptyStr), Some(EmptyStr), None) :
        g \in FilterGuids, sd \in FilterStarts }

Windows == { parse_date_input(d) : d \in {"3/4/25", "3/5/25"} }

InitRender(lists, windows, renderers) ==
    /\ pc \in renderers
    /\ error = << >>
    /\ feed_log = << >>
    /\ all_events \in lists
    /\ deduped = FALSE
    /\ start_date \in windows
    /\ end_date \in windows
    /\ events_in_range = << >>
    /\ i = 1
    /\ detail_log = << >>
    /\ NoRender
    /\ NoFilename

InitFilter == InitRender(SeqsUpTo(FilterEvents, MaxEvents), Windows, {"html"})

NextRender == GenerateHtml \/ GenerateCsv

SpecFilter == InitFilter /\ [][NextRender]_vars

DescTokens ==
    { "In-person:", "In-Person:", "IN-PERSON:", "West Hall", ",", "\n",
      "Zoom", "<p>" }

LocationEvents ==
    { Event(Str("1"), Some(<< "2025-03-04T00:00:00", "Z" >>), d, l, dl) :
        d \in {None} \cup { Some(t) : t \in SeqsUpTo(DescTokens, MaxDescLen) },
        l \in { None, Some(EmptyStr), Some(Str("Virtual")) },
        dl \in { None, Some(EmptyStr), Some(Str("340 West Hall")) } }

InitLocation ==
    InitRender({ << e >> : e \in LocationEvents },
               { parse_date_input("3/4/25") }, {"html", "csv"})

SpecLocation == InitLocation /\ [][NextRender]_vars

\* ------------------------------------------------------------- sanitize_filename alone
NameChars == { "a", " ", "-", ".", "/" }

InitSanitize ==
    /\ pc = "sanitize"
    /\ error = << >>
    /\ feed_log = << >>
    /\ all_events = << >>
    /\ deduped = FALSE
    /\ start_date = None
    /\ end_date = None
    /\ events_in_range = << >>
    /\ i = 1
    /\ detail_log = << >>
    /\ NoRender
    /\ name \in SeqsUpTo(NameChars, MaxNameLen)
    /\ max_length \in 0..MaxNameLen
    /\ safe = None

Sanitize ==
    /\ pc = "sanitize"
    /\ safe' = Some(sanitize_filename(name, max_length))
    /\ pc' = "done"
    /\ UNCHANGED << error, feed_log, all_events, deduped, start_date, end_date,
                    events_in_range, i, detail_log, render_vars, name,
                    max_length >>

SpecSanitize == InitSanitize /\ [][Sanitize]_vars

\* ------------------------------------------------------------- properties
\* Whether record k of all_events has a start instant (a start text that
\* parses to a date-time with an explicit offset), and that instant.
HasStart(k) ==
    /\ all_events[k].startdate # None
    /\ parse_iso_str(all_events[k].startdate[1]) # None
    /\ IsAware(parse_iso_str(all_events[k].startdate[1])[1])

StartInstant(k) == Instant(parse_iso_str(all_events[k].startdate[1])[1])

StartsInWindow(k) ==
    /\ HasStart(k)
    /\ Instant(start_date[1]) <= StartInstant(k)
    /\ StartInstant(k) <= Instant(end_date[1])

GuidOf(k) == all_events[k].guid

\* C1. Of the records that start in the window, a renderer keeps a record
\* unless an earlier one of them has the same non-empty guid: no two kept
\* records share a non-empty guid, the first in input order is the one
\* kept, and records with an empty guid are all kept.
C1_Kept(refs) ==
    /\ \A p, q \in 1..Len(refs) :
         p # q /\ GuidOf(refs[p]) # EmptyStr => GuidOf(refs[p]) # GuidOf(refs[q])
    /\ \A k \in 1..Len(all_events) :
         StartsInWindow(k) =>
           (k \in Range(refs) <=>
              (GuidOf(k) = EmptyStr
               \/ ~\E j \in 1..(k - 1) : StartsInWindow(j) /\ GuidOf(j) = GuidOf(k)))

C1_FirstGuidWins ==
    /\ html_filtered # None => C1_Kept(html_filtered[1])
    /\ csv_filtered # None => C1_Kept(csv_filtered[1])

\* Both renderers ran on a list in which a record of the window repeats
\* the guid of an earlier one, with a record without guid between them:
\* the later one is dropped, the other two are kept.
C1_Witness ==
    /\ html_filtered # None /\ csv_filtered # None
    /\ \E j, m, k \in 1..Len(all_events) :
         /\ j < m /\ m < k
         /\ StartsInWindow(j) /\ StartsInWindow(m) /\ StartsInWindow(k)
         /\ GuidOf(j) # EmptyStr /\ GuidOf(j) = GuidOf(k) /\ GuidOf(m) = EmptyStr
         /\ k \notin Range(csv_filtered[1]) /\ k \notin Range(html_filtered[1])
         /\ {j, m} \subseteq Range(html_filtered[1])
         /\ {j, m} \subseteq Range(csv_filtered[1])

\* Both renderers kept two identical records that have no guid.
C1_WitnessNoGuid ==
    /\ html_filtered # None /\ csv_filtered # None
    /\ \E j, k \in 1..Len(all_events) :
         /\ j < k /\ all_events[j] = all_events[k] /\ GuidOf(j) = EmptyStr
         /\ {j, k} \subseteq Range(html_filtered[1])
         /\ {j, k} \subseteq Range(csv_filtered[1])

\* C2. The window filter takes a record exactly when it has a start instant
\* and start_date <= instant <= end_date, both ends included: of main's
\* loop, events_in_range is the records that start in the window, in order;
\* of a renderer, every kept record starts in the window, and a record that
\* starts in the window is kept or repeats the guid of a kept earlier one.
C2_Filtered(refs) ==
    /\ \A p \in 1..Len(refs) : StartsInWindow(refs[p])
    /\ \A k \in 1..Len(all_events) :
         StartsInWindow(k) =>
           \/ k \in Range(refs)
           \/ \E p \in 1..Len(refs) :
                refs[p] < k /\ GuidOf(refs[p]) # EmptyStr /\ GuidOf(refs[p]) = GuidOf(k)

C2_WindowInclusive ==
    /\ pc \in {"enrich", "html", "csv", "done"} /\ deduped =>
         /\ \A p \in 1..Len(events_in_range) : StartsInWindow(events_in_range[p])
         /\ \A k \in 1..Len(all_events) :
              StartsInWindow(k) => k \in Range(events_in_range)
         /\ \A p, q \in 1..Len(events_in_range) :
              p < q => events_in_range[p] < events_in_range[q]
    /\ html_filtered # None => C2_Filtered(html_filtered[1])
    /\ csv_filtered # None => C2_Filtered(csv_filtered[1])

\* The filter took a record that starts at the window start and one that
\* starts at the window end, and left out one that starts after the end and
\* one without a start instant.
C2_Witness ==
    /\ csv_filtered # None
    /\ Instant(start_date[1]) < Instant(end_date[1])
    /\ \E a, b \in Range(events_in_range) :
         /\ StartInstant(a) = Instant(start_date[1])
         /\ StartInstant(b) = Instant(end_date[1])
         /\ {a, b} \subseteq Range(csv_filtered[1])
    /\ \E k \in 1..Len(all_events) :
         /\ HasStart(k) /\ StartInstant(k) > Instant(end_date[1])
         /\ k \notin Range(events_in_range) /\ k \notin Range(csv_filtered[1])
    /\ \E k \in 1..Len(all_events) :
         ~HasStart(k) /\ k \notin Range(events_in_range)

\* C3 (as claimed). Whatever the start texts of the records are, the date
\* filtering of main and of the renderers raises no error.
C3_DateFilterNeverRaises ==
    ~(pc = "crashed"
      /\ error[2] \in {"main", "generate_html_output",
                       "generate_google_calendar_csv"})

\* C4. filtered_events of a renderer, after its sort, ascends by start
\* instant, and records with the same start instant keep their input order.
C4_Ordered(refs) ==
    \A p, q \in 1..Len(refs) :
      p < q =>
        /\ StartInstant(refs[p]) <= StartInstant(refs[q])
        /\ StartInstant(refs[p]) = StartInstant(refs[q]) => refs[p] < refs[q]

C4_SortedStable ==
    /\ html_filtered # None => C4_Ordered(html_filtered[1])
    /\ csv_filtered # None => C4_Ordered(csv_filtered[1])

\* Both renderers sorted a list in which the sort moved a record in front
\* of an earlier one and two kept records start at the same instant.
C4_Witness ==
    /\ html_filtered # None /\ csv_filtered # None
    /\ html_filtered = csv_filtered
    /\ \E p, q \in 1..Len(csv_filtered[1]) :
         p < q /\ csv_filtered[1][p] > csv_filtered[1][q]
    /\ \E p, q \in 1..Len(csv_filtered[1]) :
         p < q /\ StartInstant(csv_filtered[1][p]) = StartInstant(csv_filtered[1][q])

\* C5 (as claimed). When the window start is after the window end the run
\* ends with the invalid-window error before any processing: no feed was
\* fetched or parsed, no URL deduplicated, no date filtered, no detail page
\* fetched, nothing rendered.
C5_ExitBeforeAnyProcessing ==
    pc = "exit" /\ error = << "SystemExit", "InvalidDateWindow" >> =>
      /\ feed_log = << >> /\ all_events = << >> /\ ~deduped
      /\ events_in_range = << >> /\ detail_log = << >> /\ NoRender

\* C5 (amended). When the window start read is after the window end, the
\* run ends with the invalid-window error before any date filtering, detail
\* fetch or rendering; the feeds were fetched and parsed and the URL
\* deduplication has run before the dates are read.
C5_ExitBeforeFiltering ==
    (start_date # None /\ end_date # None
     /\ Instant(start_date[1]) > Instant(end_date[1])) =>
      /\ pc = "exit" /\ error = << "SystemExit", "InvalidDateWindow" >>
      /\ Len(feed_log) = MaxFeeds /\ deduped
      /\ events_in_range = << >> /\ detail_log = << >> /\ NoRender

\* The run ended on a window whose start is after its end, with records
\* aggregated that start inside 3/4/25 - 3/5/25.
C5_Witness ==
    /\ pc = "exit" /\ error = << "SystemExit", "InvalidDateWindow" >>
    /\ Instant(start_date[1]) > Instant(end_date[1])
    /\ \E k \in 1..Len(all_events) :
         HasStart(k) /\ StartInstant(k) \in 72..96 /\ all_events[k].link # EmptyStr

\* C6. A detail fetch that fails does not end the run and touches no other
\* record: each record's speaker, detail location and video link are what
\* its own fetch returned, None if that fetch failed or was never made; no
\* record is fetched twice; once the loop is over every record of the
\* window with a link has had its fetch, and at the end all of them are in
\* both outputs.
EnrichmentOf(k) ==
    << all_events[k].speaker, all_events[k].detail_location,
       all_events[k].youtube_link >>

FetchesOf(k) == { p \in 1..Len(detail_log) : detail_log[p].event = k }

C6_FailedFetchIsolated ==
    /\ \A p \in 1..Len(detail_log) :
         LET answer == detail_log[p].response
         IN  EnrichmentOf(detail_log[p].event) =
               IF answer.ok
               THEN << answer.subtitle, answer.place, answer.youtube >>
               ELSE << None, None, None >>
    /\ \A k \in 1..Len(all_events) :
         /\ Cardinality(FetchesOf(k)) <= 1
         /\ FetchesOf(k) = {} /\ deduped => EnrichmentOf(k) = << None, None, None >>
    /\ (\E p \in 1..Len(detail_log) : ~detail_log[p].response.ok) =>
         pc \in {"enrich", "html", "csv", "done"}
    /\ pc \in {"html", "csv", "done"} /\ deduped =>
         \A k \in 1..Len(all_events) :
           StartsInWindow(k) /\ all_events[k].link # EmptyStr => FetchesOf(k) # {}
    /\ pc = "done" /\ deduped =>
         \A k \in 1..Len(all_events) :
           StartsInWindow(k) /\ all_events[k].link # EmptyStr =>
             /\ \E r \in 1..Len(html_output[1]) : html_output[1][r].event = k
             /\ \E r \in 1..Len(csv_rows) : csv_rows[r].event = k

\* The run is over; a fetch failed after elements had been read from the
\* page, a later fetch succeeded, and both records are in both outputs, the
\* first without speaker line, the second with one.
C6_Witness ==
    /\ pc = "done"
    /\ \E p, q \in 1..Len(detail_log) :
         /\ p < q
         /\ ~detail_log[p].response.ok /\ detail_log[p].response.subtitle # None
         /\ detail_log[q].response.ok /\ detail_log[q].response.subtitle # None
         /\ \E r, t \in 1..Len(html_output[1]) :
              /\ html_output[1][r].event = detail_log[p].event
              /\ html_output[1][r].speaker = None
              /\ html_output[1][t].event = detail_log[q].event
              /\ html_output[1][t].speaker # None
         /\ \E r, t \in 1..Len(csv_rows) :
              /\ csv_rows[r].event = detail_log[p].event
              /\ csv_rows[r].Speaker = EmptyStr
              /\ csv_rows[t].event = detail_log[q].event
              /\ csv_rows[t].Speaker # EmptyStr

\* C7. A feed that cannot be fetched or is not well-formed adds no record
\* and does not end the run: until the URL pass, all_events is the records
\* of the other feeds in feed order, as if the failing feeds were absent,
\* and the feed loop is left only after the last feed (or by the TypeError
\* of an empty guid element in a well-formed feed).
FeedFails(response) == ~response.reachable \/ ~response.wellformed

RECURSIVE RecordsOf(_)
\* The records of the items of all the answers in log, in order.
RecordsOf(log) ==
    IF log = << >> THEN << >>
    ELSE RecordsOf(Front(log))
         \o [k \in 1..Len(Last(log).items) |-> ParseItem(Last(log).items[k])]

GuidCrash == pc = "crashed" /\ error = << "TypeError", "parse_rss_feed" >>

\* The answers of the feeds that did not fail (and did not crash the run).
GoodFeeds ==
    SelectSeq(IF GuidCrash THEN Front(feed_log) ELSE feed_log,
              LAMBDA r : ~FeedFails(r))

C7_FailingFeedSkipped ==
    /\ ~deduped => all_events = RecordsOf(GoodFeeds)
    /\ GuidCrash => ~FeedFails(Last(feed_log))
    /\ pc # "feeds" => GuidCrash \/ Len(feed_log) = MaxFeeds
    /\ pc = "exit" => error[2] \in {"parse_date_input", "InvalidDateWindow"}

\* The feed loop is over: between two feeds that gave records, one feed was
\* unreachable and one was not well-formed though it held items.
C7_Witness ==
    /\ pc = "feeds" /\ Len(feed_log) = MaxFeeds
    /\ \E p, q, r \in 1..Len(feed_log) :
         /\ p < q /\ q < r
         /\ ~FeedFails(feed_log[p]) /\ feed_log[p].items # << >>
         /\ FeedFails(feed_log[q])
         /\ ~FeedFails(feed_log[r]) /\ feed_log[r].items # << >>
         /\ feed_log[p] # feed_log[r]
    /\ all_events # << >>

\* The same with the failing feed holding items in its text.
C7_WitnessMalformed ==
    /\ pc = "feeds" /\ Len(feed_log) = MaxFeeds
    /\ \E q \in 1..Len(feed_log) :
         feed_log[q].reachable /\ ~feed_log[q].wellformed /\ feed_log[q].items # << >>
    /\ all_events # << >>

\* C8. After the URL pass no two records share a non-empty link, the
\* records are the first occurrences in aggregation order (records without
\* link all stay), and no link is fetched twice.
Unenriched(event) ==
    [event EXCEPT !.speaker = None, !.detail_location = None,
                  !.youtube_link = None]

RECURSIVE FirstOccurrences(_, _)
FirstOccurrences(records, k) ==
    IF k > Len(records) THEN << >>
    ELSE (IF records[k].link = EmptyStr
             \/ \A j \in 1..(k - 1) : records[j].link # records[k].link
          THEN << records[k] >> ELSE << >>)
         \o FirstOccurrences(records, k + 1)

C8_FirstLinkWins ==
    /\ deduped =>
         /\ \A j, k \in 1..Len(all_events) :
              j # k /\ all_events[j].link # EmptyStr =>
                all_events[j].link # all_events[k].link
         /\ [k \in 1..Len(all_events) |-> Unenriched(all_events[k])]
              = FirstOccurrences(RecordsOf(GoodFeeds), 1)
    /\ \A p, q \in 1..Len(detail_log) :
         p # q => detail_log[p].link # detail_log[q].link

\* The run is over; the feeds held a link twice and two records without
\* link; the pass dropped the repeat, kept both records without link, and
\* the link was fetched.
C8_Witness ==
    /\ pc = "done"
    /\ \E j, k \in 1..Len(RecordsOf(GoodFeeds)) :
         /\ j < k
         /\ RecordsOf(GoodFeeds)[j].link # EmptyStr
         /\ RecordsOf(GoodFeeds)[j].link = RecordsOf(GoodFeeds)[k].link
         /\ RecordsOf(GoodFeeds)[j] # RecordsOf(GoodFeeds)[k]
         /\ \E p \in 1..Len(detail_log) :
              detail_log[p].link = RecordsOf(GoodFeeds)[j].link
    /\ \E j, k \in 1..Len(all_events) :
         j < k /\ all_events[j] = all_events[k] /\ all_events[j].link = EmptyStr


\* C9 (as claimed). What sanitize_filename returns is at most max_length
\* long, holds none of < > : " / \ | ? * and does not end in a space or dot.
C9_SafeFilename ==
    safe # None =>
      /\ Len(safe[1]) <= max_length
      /\ Range(safe[1]) \cap InvalidChars = {}
      /\ safe[1] # << >> => Last(safe[1]) \notin {" ", "."}

\* C10. The location a renderer shows for a record is the detail-page
\* location if there is one, else the in-person location of the
\* description, else the feed's location, else empty.
Present(v) == v # None /\ v[1] # EmptyStr

C10_Expected(event) ==
    IF Present(event.detail_location) THEN event.detail_location[1]
    ELSE IF event.description # None
            /\ Present(extract_location_str(event.description[1]))
    THEN extract_location_str(event.description[1])[1]
    ELSE IF Present(event.location) THEN event.location[1]
    ELSE EmptyStr

C10_LocationChain ==
    /\ html_output # None =>
         \A k \in 1..Len(html_output[1]) :
           LET expected == C10_Expected(all_events[html_output[1][k].event])
           IN  html_output[1][k].location =
                 IF expected = EmptyStr THEN None ELSE Some(expected)
    /\ \A k \in 1..Len(csv_rows) :
         csv_rows[k].Location = C10_Expected(all_events[csv_rows[k].event])

\* The CSV holds a row whose location comes from the description although
\* the feed gives another one, the detail page giving none.
C10_Witness ==
    /\ pc = "done"
    /\ \E k \in 1..Len(csv_rows) :
         LET event == all_events[csv_rows[k].event]
         IN  /\ ~Present(event.detail_location)
             /\ Present(event.location)
             /\ csv_rows[k].Location # event.location[1]
             /\ csv_rows[k].Location # EmptyStr

\* C11. A record's speaker, detail location and video link are None when it
\* is parsed and stay None until the enrichment loop reaches it. A step
\* writes the fields of a record only as the enrichment of that record: the
\* record is the one the loop is at, it starts in the window, it has a
\* link, the page fetched is the one of its own link, it was never
\* enriched before, and no other record and no other field changes. A field
\* that holds a value is never changed again. Records without link or that
\* do not start in the window are never enriched.
C11_Unset(event) ==
    event.speaker = None /\ event.detail_location = None
    /\ event.youtube_link = None

C11_UnsetUntilEnriched ==
    /\ pc \in {"feeds", "dates", "filter", "exit"} =>
         /\ detail_log = << >>
         /\ \A k \in 1..Len(all_events) : C11_Unset(all_events[k])
    /\ deduped /\ start_date # None /\ end_date # None =>
         \A k \in 1..Len(all_events) :
           (all_events[k].link = EmptyStr \/ ~StartsInWindow(k)) =>
             FetchesOf(k) = {} /\ C11_Unset(all_events[k])

\* What a step that enriches a record does.
C11_EnrichmentOfOne ==
    \E ref \in 1..Len(all_events) :
      /\ pc = "enrich" /\ events_in_range[i] = ref
      /\ all_events[ref].link # EmptyStr /\ StartsInWindow(ref)
      /\ FetchesOf(ref) = {} /\ C11_Unset(all_events[ref])
      /\ Len(detail_log') = Len(detail_log) + 1
      /\ SubSeq(detail_log', 1, Len(detail_log)) = detail_log
      /\ Last(detail_log').event = ref
      /\ Last(detail_log').link = all_events[ref].link
      /\ Len(all_events') = Len(all_events)
      /\ \A k \in 1..Len(all_events) : k # ref => all_events'[k] = all_events[k]
      /\ Unenriched(all_events'[ref]) = all_events[ref]

\* What every other step does: no fetch, and the records there are keep
\* their fields (the URL pass, before any enrichment, only drops records).
C11_NoEnrichment ==
    /\ detail_log' = detail_log
    /\ IF deduped' # deduped
       THEN \A k \in 1..Len(all_events') : C11_Unset(all_events'[k])
       ELSE /\ Len(all_events') >= Len(all_events)
            /\ \A k \in 1..Len(all_events) : all_events'[k] = all_events[k]
            /\ \A k \in (Len(all_events) + 1)..Len(all_events') :
                 C11_Unset(all_events'[k])

C11_NeverReset ==
    deduped' = deduped /\ Len(all_events') = Len(all_events) =>
      \A k \in 1..Len(all_events) :
        /\ all_events[k].speaker # None =>
             all_events'[k].speaker = all_events[k].speaker
        /\ all_events[k].detail_location # None =>
             all_events'[k].detail_location = all_events[k].detail_location
        /\ all_events[k].youtube_link # None =>
             all_events'[k].youtube_link = all_events[k].youtube_link

C11_EnrichedAtMostOnce ==
    /\ []C11_UnsetUntilEnriched
    /\ [][ /\ C11_EnrichmentOfOne \/ C11_NoEnrichment
           /\ C11_NeverReset ]_vars

\* The run is over: a record of the window was enriched with values by its
\* one fetch, after it a record of the window without link was passed, and
\* a record with a link that starts after the window was left alone.
C11_Witness ==
    /\ pc = "done" /\ deduped
    /\ \E a, b, c \in 1..Len(all_events) :
         /\ StartsInWindow(a) /\ Cardinality(FetchesOf(a)) = 1
         /\ all_events[a].speaker # None /\ all_events[a].detail_location # None
         /\ all_events[a].youtube_link # None
         /\ a < b /\ StartsInWindow(b) /\ all_events[b].link = EmptyStr
         /\ b \in Range(events_in_range) /\ C11_Unset(all_events[b])
         /\ ~StartsInWindow(c) /\ all_events[c].link # EmptyStr
         /\ FetchesOf(c) = {} /\ C11_Unset(all_events[c])

\* C12. Both renderers select the same records in the same order: their
\* filtered_events after the sort are the same list. The rows of the CSV
\* are that list, in its order; the entries of the document are the same
\* records, each once, in that order too when the wall-clock days of the
\* selected records ascend with their start instants. In a run of main
\* every selected record with a link had its detail page fetched, and no
\* page is fetched once rendering has begun.
C12_Entries == [r \in 1..Len(html_output[1]) |-> html_output[1][r].event]

C12_Rows == [r \in 1..Len(csv_rows) |-> csv_rows[r].event]

C12_DaysAscend(refs) ==
    \A p, q \in 1..Len(refs) :
      p < q => DateKey(all_events[refs[p]]) <= DateKey(all_events[refs[q]])

C12_Fetched(refs) ==
    \A p \in 1..Len(refs) :
      all_events[refs[p]].link # EmptyStr => FetchesOf(refs[p]) # {}

C12_Selection ==
    /\ html_filtered # None /\ csv_filtered # None =>
         html_filtered = csv_filtered
    /\ html_output # None =>
         /\ Len(C12_Entries) = Len(html_filtered[1])
         /\ Range(C12_Entries) = Range(html_filtered[1])
         /\ C12_DaysAscend(html_filtered[1]) => C12_Entries = html_filtered[1]
    /\ pc = "done" /\ html_output # None =>
         /\ C12_Rows = csv_filtered[1]
         /\ Range(C12_Rows) = Range(C12_Entries)
    /\ deduped /\ html_filtered # None => C12_Fetched(html_filtered[1])
    /\ deduped /\ csv_filtered # None => C12_Fetched(csv_filtered[1])

C12_NoFetchWhileRendering ==
    pc \in {"html", "csv", "done"} => detail_log' = detail_log

C12_SameSelection ==
    /\ []C12_Selection
    /\ [][ C12_NoFetchWhileRendering ]_vars

\* The run is over: the selection holds a record with a link, which was
\* fetched, and one without; the sort moved a record in front of an earlier
\* one; a record with a link that starts after the window is in neither
\* output.
C12_Witness ==
    /\ pc = "done" /\ deduped
    /\ \E p, q \in 1..Len(C12_Rows) :
         /\ p < q /\ C12_Rows[p] > C12_Rows[q]
         /\ all_events[C12_Rows[p]].link # EmptyStr
         /\ FetchesOf(C12_Rows[p]) # {}
         /\ all_events[C12_Rows[q]].link = EmptyStr
    /\ C12_Entries = C12_Rows
    /\ \E k \in 1..Len(all_events) :
         /\ all_events[k].link # EmptyStr /\ HasStart(k)
         /\ k \notin Range(C12_Rows) /\ k \notin Range(C12_Entries)

\* The run is over with the same selection in both renderers, and the
\* document, which groups by wall-clock day, shows two of the records in
\* the other order than the rows of the CSV.
C12_WitnessRegrouped ==
    /\ pc = "done" /\ deduped
    /\ html_filtered = csv_filtered
    /\ Range(C12_Entries) = Range(C12_Rows)
    /\ C12_Entries # C12_Rows

====
